---------------------------- MODULE Spec2Model ----------------------------
(***************************************************************************)
(* The inline voice bot: an inbound inline query is debounced per user,    *)
(* the surviving job resolves the voices of its language (cached, filled   *)
(* under a lock from the Polly catalog), fans one unit of work out per     *)
(* voice to a pool of 4 workers (synthesize, transcode, upload) and        *)
(* answers the query with the results of the units that succeeded.         *)
(*                                                                         *)
(* Text is a sequence of one-character strings.  Voice identifiers are     *)
(* numbered in their lexicographic order, so that sorting them is sorting  *)
(* numbers.  Time is counted in ticks of half the debounce delay.          *)
(***************************************************************************)
EXTENDS Naturals, Sequences, FiniteSets

\* ------------------------------------------------------------- bounds
\* Number of inbound inline queries of a run: of the debounce scenario, of
\* the scenario of racing voices() calls, and of the fan-out scenario.
MaxQueries == 2
MaxCalls == 3
MaxJobs == 1
\* Number of voices of a catalog, where every catalog is tried.
MaxVoices == 2
\* Number of queries of the scenario that fills the pool.
MaxPoolJobs == 3

\* ---------------------------------------------------------- constants
\* config.py: TELEGRAM_INLINE_DEBOUNCE_MILLIS, in ticks.
inline_debounce_millis == 2
\* config.py: TELEGRAM_MIN_MESSAGE_LENGTH and TELEGRAM_MAX_MESSAGE_LENGTH.
min_message_length == 1
max_message_length == 255
\* synthesize_inline.py: ThreadPoolExecutor(max_workers=4).
max_workers == 4
\* synthesize_inline.py: answer(..., cache_time=120).
cache_time == 120

None == "None"
Users == {"u1", "u2"}

\* ------------------------------------------------------------- text
LowerCase ==
    {"a", "b", "c", "d", "e", "f", "g", "h", "i", "j", "k", "l", "m",
     "n", "o", "p", "q", "r", "s", "t", "u", "v", "w", "x", "y", "z"}
UpperCase ==
    {"A", "B", "C", "D", "E", "F", "G", "H", "I", "J", "K", "L", "M",
     "N", "O", "P", "Q", "R", "S", "T", "U", "V", "W", "X", "Y", "Z"}
WhiteSpace == {" ", "\t", "\n"}

Drop(s, n) == SubSeq(s, n + 1, Len(s))
Take(s, n) == SubSeq(s, 1, IF n < Len(s) THEN n ELSE Len(s))

RECURSIVE Collapse(_)
\* Every run of whitespace becomes one blank.
Collapse(s) ==
    IF s = <<>> THEN <<>>
    ELSE IF Head(s) \in WhiteSpace
         THEN IF Len(s) > 1 /\ s[2] \in WhiteSpace
              THEN Collapse(Tail(s))
              ELSE <<" ">> \o Collapse(Tail(s))
         ELSE <<Head(s)>> \o Collapse(Tail(s))

Strip(s) ==
    LET a == IF s # <<>> /\ Head(s) = " " THEN Tail(s) ELSE s
    IN  IF a # <<>> /\ a[Len(a)] = " " THEN SubSeq(a, 1, Len(a) - 1) ELSE a

\* util/sanitizer.py: Sanitizer(max_message_length).sanitize
sanitize(query) == Take(Strip(Collapse(query)), max_message_length)

\* util/validator.py: Validator(min, max).validate
validate(text) ==
    Len(text) >= min_message_length /\ Len(text) <= max_message_length

\* synthesizer/synthesizer.py: the Language enumeration, its lookup by name
\* and the Polly language code held in value['code'].
Languages == {"EN", "RU"}
from_name(name) ==
    IF name = <<"e", "n">> THEN "EN"
    ELSE IF name = <<"r", "u">> THEN "RU"
    ELSE None
LanguageCode(language) == IF language = "RU" THEN "ru-RU" ELSE "en-US"
LanguageCodes == {LanguageCode(l) : l \in Languages}

\* lang_text_pattern = "!(?P<language>[a-z]{2,3})\s(?P<text>.*)", fullmatch:
\* k letters, k = 3 tried first ({2,3} is greedy); '.' matches no newline.
MatchesWith(text, k) ==
    /\ Len(text) >= k + 2
    /\ text[1] = "!"
    /\ \A i \in 2..(k + 1) : text[i] \in LowerCase
    /\ text[k + 2] \in WhiteSpace
    /\ \A i \in (k + 3)..Len(text) : text[i] # "\n"
lang_text_pattern(text) ==
    IF MatchesWith(text, 3) THEN 3
    ELSE IF MatchesWith(text, 2) THEN 2
    ELSE 0

\* __parse_query__ taking the text after any directive, known or not.
parse_query_unchecked(query) ==
    LET text == sanitize(query)
        k == lang_text_pattern(text)
    IN  IF text # <<>> /\ Head(text) = "!" /\ k # 0
        THEN <<from_name(SubSeq(text, 2, k + 1)), Drop(text, k + 2)>>
        ELSE <<None, text>>

__parse_query__(query) ==
    LET text == sanitize(query)
        k == lang_text_pattern(text)
        language == from_name(SubSeq(text, 2, k + 1))
    IN  IF text # <<>> /\ Head(text) = "!" /\ k # 0 /\ language # None
        THEN <<language, Drop(text, k + 2)>>
        ELSE <<None, text>>

\* ----------------------------------------------------------- voices
\* langdetect.detect: a language code, or LangDetectException("No features
\* in text") for a text without any letter.
DetectCodes == {<<"e", "n">>, <<"r", "u">>, <<"m", "k">>, <<"d", "e">>}
Raise == <<"Raise">>
detect(text) ==
    IF \E i \in 1..Len(text) : text[i] \in LowerCase \cup UpperCase
    THEN DetectCodes
    ELSE {Raise}

\* The language guessed from what detect returned (code is not Raise).
__guess_language__(code) ==
    IF code = <<"m", "k">> THEN "RU"
    ELSE IF from_name(code) # None THEN from_name(code) ELSE "EN"

\* Polly's describe_voices: the (Id, Gender) pairs of the voices of a
\* language.  An identifier names one voice, so no two pairs share it.
Catalogs ==
    { <<>>,
      <<<<3, "Female">>, <<1, "Neutral">>, <<4, "Male">>, <<2, "Female">>>>,
      <<<<3, "Male">>, <<2, "Male">>>> }
\* Every catalog of at most n voices, each with its own identifier.
VoiceIds == {1, 2, 3}
Genders == {"Female", "Male", "Neutral"}
CatalogsUpTo(n) ==
    UNION {{c \in [1..k -> VoiceIds \X Genders] :
               \A i, j \in 1..k : i # j => c[i][1] # c[j][1]} : k \in 0..n}

\* What describe_voices does: it answers with a catalog, or it raises.
Responses ==
    {[error |-> FALSE, Voices |-> c] : c \in Catalogs}
        \cup {[error |-> TRUE, Voices |-> <<>>]}

RECURSIVE Insert(_, _)
Insert(x, s) ==
    IF s = <<>> THEN <<x>>
    ELSE IF x <= Head(s) THEN <<x>> \o s
    ELSE <<Head(s)>> \o Insert(x, Tail(s))
RECURSIVE sort(_)
\* list.sort()
sort(s) == IF s = <<>> THEN <<>> ELSE Insert(Head(s), sort(Tail(s)))

Ids(pairs) == [i \in 1..Len(pairs) |-> pairs[i][1]]

\* __choose_voices__ choosing among the voices of every gender.
RECURSIVE choose_voices_any_gender(_, _)
choose_voices_any_gender(voices, genders) ==
    IF genders = <<>> THEN <<>>
    ELSE LET sorted_voices == sort(Ids(voices))
         IN  (IF Len(sorted_voices) > 0 THEN <<sorted_voices[1]>> ELSE <<>>)
             \o choose_voices_any_gender(voices, Tail(genders))

RECURSIVE __choose_voices__(_, _)
__choose_voices__(voices, genders) ==
    IF genders = <<>> THEN <<>>
    ELSE LET gender == Head(genders)
             sorted_voices ==
                 sort(Ids(SelectSeq(voices, LAMBDA v : v[2] = gender)))
         IN  (IF Len(sorted_voices) > 0 THEN <<sorted_voices[1]>> ELSE <<>>)
             \o __choose_voices__(voices, Tail(genders))

\* The genders in the other order.
genders_male_first == <<"Male", "Female">>

\* The genders __fetch_voices__ asks a voice of, in this order.
genders == <<"Female", "Male">>

\* The list __fetch_voices__ returns for a response that is a catalog.
__fetch_voices__(response) ==
    LET voices_list == response.Voices
    IN  IF voices_list = <<>> THEN <<>>
        ELSE __choose_voices__(voices_list, genders)

\* The dict d with d[key] = value.
SetItem(d, key, value) ==
    [k \in DOMAIN d \cup {key} |-> IF k = key THEN value ELSE d[k]]

\* voices(), lines 39-45: what the call returns after the fetch.
voices_result(response) ==
    IF response.error THEN <<>> ELSE __fetch_voices__(response)

\* voices() caching the empty list when the fetch raised.
voices_cache_on_error(cache, language_code, response) ==
    SetItem(cache, language_code, voices_result(response))

\* voices(), lines 39-45: the cache after the fetch answered `response`.
voices_cache(cache, language_code, response) ==
    IF response.error THEN cache
    ELSE SetItem(cache, language_code, __fetch_voices__(response))

\* ----------------------------------------------------- unit of work
\* What can happen to one unit: all three steps succeed, synthesize raises,
\* the transcoder raises, S3 answers with a ClientError, or the upload
\* raises something else.
Outcomes ==
    {"ok", "synthesize_raises", "convert_raises", "upload_ClientError",
     "upload_raises"}

s3_bucket == "bucket"
NoResult == [kind |-> "None"]
Raised == [kind |-> "Raise"]

\* S3FileUploader.upload with a fresh uuid4, here object_id
upload(outcome, object_id) ==
    IF outcome = "upload_ClientError" THEN NoResult
    ELSE IF outcome = "upload_raises" THEN Raised
    ELSE [kind |-> "value", object_id |-> object_id,
          object_url |-> <<"https://", s3_bucket, ".s3.amazonaws.com/",
                           object_id, ".ogg">>]

\* __synthesize_request__ without its try/except: the exception escapes.
synthesize_request_uncaught(voice, outcome, object_id) ==
    IF outcome \in {"synthesize_raises", "convert_raises"} THEN Raised
    ELSE LET result == upload(outcome, object_id)
         IN  IF result.kind = "Raise" THEN Raised
             ELSE IF result.kind = "None" THEN NoResult
             ELSE [kind |-> "value", object_id |-> result.object_id,
                   object_url |-> result.object_url, voice |-> voice]

__synthesize_request__(voice, outcome, object_id) ==
    IF outcome \in {"synthesize_raises", "convert_raises"} THEN NoResult
    ELSE LET result == upload(outcome, object_id)
         IN  IF result.kind = "Raise" THEN NoResult
             ELSE IF result.kind = "None" THEN NoResult
             ELSE [kind |-> "value", object_id |-> result.object_id,
                   object_url |-> result.object_url, voice |-> voice]

\* ------------------------------------------------------------- state
VARIABLES
    queries,      \* one record per inbound inline query, with its job
    since,        \* per user: ticks since the user's last query (capped)
    answers,      \* the answers sent to the chat transport, in order
    __voices__,   \* PollySynthesizer.__voices__: language code -> voices
    __lock__,     \* PollySynthesizer.__lock__: 0, or the job holding it
    tasks         \* the units submitted to the executor, in order

vars == <<queries, since, answers, __voices__, __lock__, tasks>>

\* The raw queries users send.
Queries ==
    { <<"h", "i">>,
      <<"!", "r", "u", " ", "d", "a">>,
      <<"1", "2">>,
      <<" ">> }

JobIds == 1..Len(queries)
JobsOf(user) == {j \in JobIds : queries[j].user = user}
Pending(j) == queries[j].state = "pending"
Last(S) == CHOOSE j \in S : \A k \in S : k <= j
Min(a, b) == IF a < b THEN a ELSE b

\* get_jobs_by_name asked for a name no job has.
get_jobs_by_other_name(job_name) == {j \in JobsOf(job_name) : FALSE}

\* get_jobs_by_name returning the jobs that have fired as well.
get_all_jobs_by_name(job_name) ==
    {j \in JobsOf(job_name) : Pending(j) \/ queries[j].state # "removed"}

\* JobQueue.get_jobs_by_name: the jobs still in the scheduler
get_jobs_by_name(job_name) == {j \in JobsOf(job_name) : Pending(j)}

\* __remove_active_jobs__ without its loop: no job is removed.
remove_no_job(job_name) == [j \in JobIds |-> queries[j]]

\* The queue after schedule_removal() of every job of that name.
__remove_active_jobs__(job_name) ==
    [j \in JobIds |->
        IF j \in get_jobs_by_name(job_name)
        THEN [queries[j] EXCEPT !.state = "removed"]
        ELSE queries[j]]

Init ==
    /\ queries = <<>>
    /\ since = [u \in Users |-> inline_debounce_millis]
    /\ answers = <<>>
    /\ __voices__ = [c \in {} |-> <<>>]
    /\ __lock__ = 0
    /\ tasks = <<>>

\* __command__ answering every query that fails validation, whether the
\* user had a job or not.
command_answers_always(user, query) ==
    LET job_name == user
        parsed == __parse_query__(query)
        text == parsed[2]
        burst == IF JobsOf(user) = {} THEN 1
                 ELSE queries[Last(JobsOf(user))].burst
                      + (IF since[user] < inline_debounce_millis THEN 0 ELSE 1)
        entry == [user |-> user, query |-> query, text |-> text,
                  language |-> parsed[1], burst |-> burst,
                  state |-> IF validate(text) THEN "pending" ELSE "rejected",
                  when |-> inline_debounce_millis,
                  language_code |-> None, after |-> {}, voices |-> <<>>,
                  fetched |-> "no", refetch |-> FALSE, catalog |-> <<>>,
                  completed |-> <<>>]
    IN  /\ queries' = Append(__remove_active_jobs__(job_name), entry)
        /\ since' = [since EXCEPT ![user] = 0]
        /\ answers' =
               IF ~validate(text)
               THEN Append(answers, [query |-> Len(queries) + 1,
                                     sender |-> "__command__",
                                     results |-> <<>>, is_personal |-> TRUE])
               ELSE answers
        /\ UNCHANGED <<__voices__, __lock__, tasks>>

\* The dispatcher thread handles one inline query of `user`.  The record of
\* the query keeps the job's context (text, language), the position of the
\* job's thread (state) and what its call of voices() did: the language
\* code, the jobs whose fetch had ended when it looked the cache up (after),
\* the list returned, and how its fetch ended (fetched: no fetch, "error",
\* "empty" for a catalog without voices, "ok"; refetch: the language was
\* cached already; catalog: the voices describe_voices listed), and the
\* units in the order as_completed has yielded them (completed).
\* burst counts the user's runs of rapid queries.
__command__(user, query) ==
    LET job_name == user
        had_active_jobs == get_jobs_by_name(job_name) # {}
        parsed == __parse_query__(query)
        language == parsed[1]
        text == parsed[2]
        rapid == since[user] < inline_debounce_millis
        burst == IF JobsOf(user) = {} THEN 1
                 ELSE queries[Last(JobsOf(user))].burst
                      + (IF rapid THEN 0 ELSE 1)
        entry == [user |-> user, query |-> query, text |-> text,
                  language |-> language, burst |-> burst,
                  state |-> IF validate(text) THEN "pending" ELSE "rejected",
                  when |-> inline_debounce_millis,
                  language_code |-> None, after |-> {}, voices |-> <<>>,
                  fetched |-> "no", refetch |-> FALSE, catalog |-> <<>>,
                  completed |-> <<>>]
    IN  /\ queries' = Append(__remove_active_jobs__(job_name), entry)
        /\ since' = [since EXCEPT ![user] = 0]
        /\ answers' =
               IF ~validate(text) /\ had_active_jobs
               THEN Append(answers, [query |-> Len(queries) + 1,
                                     sender |-> "__command__",
                                     results |-> <<>>, is_personal |-> TRUE])
               ELSE answers
        /\ UNCHANGED <<__voices__, __lock__, tasks>>

\* One tick of time passes.  The scheduler is punctual: a job that is due
\* fires before time goes on.
Tick ==
    /\ \E u \in Users : since[u] < inline_debounce_millis
    /\ \A j \in JobIds : Pending(j) => queries[j].when > 0
    /\ since' = [u \in Users |-> Min(since[u] + 1, inline_debounce_millis)]
    /\ queries' = [j \in JobIds |->
                      IF Pending(j) /\ queries[j].when > 0
                      THEN [queries[j] EXCEPT !.when = @ - 1]
                      ELSE queries[j]]
    /\ UNCHANGED <<answers, __voices__, __lock__, tasks>>

\* The scheduler fires a job whose delay has elapsed: the job leaves the
\* queue and a scheduler thread enters __synthesize_callback__.
Fire(j) ==
    /\ Pending(j)
    /\ queries[j].when = 0
    /\ queries' = [queries EXCEPT ![j].state = "voices"]
    /\ UNCHANGED <<since, answers, __voices__, __lock__, tasks>>

\* executor.submit of one unit per voice, in the order of the list.  end
\* will tell the how-manieth unit of its job this one was to complete.
submit(j, voices) ==
    tasks \o [i \in 1..Len(voices) |->
                 [job |-> j, voice |-> voices[i], state |-> "queued",
                  outcome |-> None, result |-> NoResult, end |-> 0]]

\* voices(), lines 35-37: the language code and the lock-free cache lookup.
\* `code` is what langdetect returns when the query names no language.
Lookup(j, code) ==
    /\ queries[j].state = "voices"
    /\ IF queries[j].language = None /\ code = Raise
       THEN /\ queries' = [queries EXCEPT ![j].state = "raised"]
            /\ UNCHANGED tasks
       ELSE LET language == IF queries[j].language # None
                            THEN queries[j].language
                            ELSE __guess_language__(code)
                language_code == LanguageCode(language)
                after == {k \in JobIds : queries[k].fetched # "no"}
            IN  IF language_code \in DOMAIN __voices__
                THEN /\ queries' = [queries EXCEPT
                            ![j].language_code = language_code,
                            ![j].after = after,
                            ![j].voices = __voices__[language_code],
                            ![j].state = "submitted"]
                     /\ tasks' = submit(j, __voices__[language_code])
                ELSE /\ queries' = [queries EXCEPT
                            ![j].language_code = language_code,
                            ![j].after = after,
                            ![j].state = "lock"]
                     /\ UNCHANGED tasks
    /\ UNCHANGED <<since, answers, __voices__, __lock__>>

\* voices() entering its fetch without waiting for the lock.
acquire_unlocked(j) ==
    /\ queries[j].state = "lock"
    /\ __lock__' = j
    /\ queries' = [queries EXCEPT ![j].state = "fetch"]
    /\ UNCHANGED <<since, answers, __voices__, tasks>>

\* voices(), line 38: the caller gets the lock and calls describe_voices.
Acquire(j) ==
    /\ queries[j].state = "lock"
    /\ __lock__ = 0
    /\ __lock__' = j
    /\ queries' = [queries EXCEPT ![j].state = "fetch"]
    /\ UNCHANGED <<since, answers, __voices__, tasks>>

\* voices(), lines 39-45: describe_voices answers, the result is cached and
\* returned and the lock released; __synthesize__ submits the units.
Fetch(j, response) ==
    /\ queries[j].state = "fetch"
    /\ __lock__ = j
    /\ __voices__' =
           voices_cache(__voices__, queries[j].language_code, response)
    /\ __lock__' = 0
    /\ queries' = [queries EXCEPT
           ![j].voices = voices_result(response),
           ![j].fetched = IF response.error THEN "error"
                          ELSE IF response.Voices = <<>> THEN "empty"
                          ELSE "ok",
           ![j].refetch = queries[j].language_code \in DOMAIN __voices__,
           ![j].catalog = response.Voices,
           ![j].state = "submitted"]
    /\ tasks' = submit(j, voices_result(response))
    /\ UNCHANGED <<since, answers>>

\* uuid4().hex: an identifier no other call returns; a unit uploads once.
uuid4(t) == t

Running == {t \in 1..Len(tasks) : tasks[t].state = "running"}
Queued == {t \in 1..Len(tasks) : tasks[t].state = "queued"}
Done == {t \in 1..Len(tasks) : tasks[t].state = "done"}
TasksOf(j) == {t \in 1..Len(tasks) : tasks[t].job = j}

\* A pool that starts a thread for every unit.
worker_start_unbounded(t) ==
    /\ t \in Queued
    /\ \A s \in Queued : t <= s
    /\ tasks' = [tasks EXCEPT ![t].state = "running"]
    /\ UNCHANGED <<queries, since, answers, __voices__, __lock__>>

\* A free worker of the pool takes the oldest queued unit.
WorkerStart(t) ==
    /\ t \in Queued
    /\ \A s \in Queued : t <= s
    /\ Cardinality(Running) < max_workers
    /\ tasks' = [tasks EXCEPT ![t].state = "running"]
    /\ UNCHANGED <<queries, since, answers, __voices__, __lock__>>

\* The unit ends: its future completes with what the unit returned, and
\* tells the waiter of as_completed, if the job waits already.
WorkerFinish(t, outcome) ==
    /\ t \in Running
    /\ tasks' = [tasks EXCEPT
           ![t].state = "done",
           ![t].outcome = outcome,
           ![t].result = __synthesize_request__(tasks[t].voice, outcome,
                                                uuid4(t)),
           ![t].end = Cardinality(TasksOf(tasks[t].job) \cap Done) + 1]
    /\ queries' = [queries EXCEPT ![tasks[t].job].completed =
                       IF queries[tasks[t].job].state = "collect"
                       THEN Append(@, t) ELSE @]
    /\ UNCHANGED <<since, answers, __voices__, __lock__>>

\* The sequences that list every element of S once.
Orders(S) ==
    {s \in [1..Cardinality(S) -> S] :
        \A i, k \in 1..Cardinality(S) : i # k => s[i] # s[k]}

\* __synthesize__, line 90: concurrent.futures.as_completed(tasks) begins.
\* It puts the futures in a set, yields those that are complete already as
\* the set lists them (order), and then each other one as it completes.
as_completed(j, order) ==
    /\ queries[j].state = "submitted"
    /\ order \in Orders(TasksOf(j) \cap Done)
    /\ queries' = [queries EXCEPT
           ![j].completed = order,
           ![j].state = "collect"]
    /\ UNCHANGED <<since, answers, __voices__, __lock__, tasks>>

\* inline_results with an item for every future, its result None or not.
inline_results_of_all(j) ==
    [i \in 1..Len(queries[j].completed) |->
        [id |-> uuid4(queries[j].completed[i]), voice_url |-> None,
         title |-> <<tasks[queries[j].completed[i]].voice, queries[j].text>>]]

\* inline_results collected from the futures in the order of the list tasks,
\* that is of submission.
inline_results_in_submission_order(j) ==
    LET mine == SelectSeq([t \in 1..Len(tasks) |-> t],
                          LAMBDA t : t \in TasksOf(j)
                                     /\ tasks[t].result.kind = "value")
    IN  [i \in 1..Len(mine) |->
            [id |-> tasks[mine[i]].result.object_id,
             voice_url |-> tasks[mine[i]].result.object_url,
             title |-> <<tasks[mine[i]].result.voice, queries[j].text>>]]

\* __synthesize__, lines 89-96: the items of the results that are not None,
\* in the order as_completed yields the futures.
inline_results(j) ==
    LET done == SelectSeq(queries[j].completed,
                          LAMBDA t : tasks[t].result.kind = "value")
    IN  [i \in 1..Len(done) |->
            [id |-> tasks[done[i]].result.object_id,
             voice_url |-> tasks[done[i]].result.object_url,
             title |-> <<tasks[done[i]].result.voice, queries[j].text>>]]

\* __synthesize__, lines 90-97: every future is complete and the answer is
\* sent; a future that holds an exception raises it from task.result().
Answer(j) ==
    /\ queries[j].state = "collect"
    /\ \A t \in TasksOf(j) : tasks[t].state = "done"
    /\ IF \E t \in TasksOf(j) : tasks[t].result.kind = "Raise"
       THEN /\ queries' = [queries EXCEPT ![j].state = "raised"]
            /\ UNCHANGED answers
       ELSE /\ queries' = [queries EXCEPT ![j].state = "answered"]
            /\ answers' = Append(answers,
                   [query |-> j, sender |-> "__synthesize__",
                    results |-> inline_results(j),
                    is_personal |-> TRUE, cache_time |-> cache_time])
    /\ UNCHANGED <<since, __voices__, __lock__, tasks>>

\* A query that arrives at the instant a job of its user is due is handled
\* after that job fired.
Punctual(user) == \A j \in get_jobs_by_name(user) : queries[j].when > 0

\* The steps of the scheduler, of the threads of the fired jobs and of the
\* workers of the pool, for the codes langdetect may return (cs), the
\* responses of describe_voices (rs) and the outcomes of a unit of work
\* (os).
Run(cs, rs, os) ==
    \/ Tick
    \/ \E j \in JobIds : Fire(j)
    \/ \E j \in JobIds, code \in cs :
           code \in detect(queries[j].text) /\ Lookup(j, code)
    \/ \E j \in JobIds : Acquire(j)
    \/ \E j \in JobIds, response \in rs : Fetch(j, response)
    \/ \E t \in 1..Len(tasks) : WorkerStart(t)
    \/ \E t \in 1..Len(tasks), outcome \in os : WorkerFinish(t, outcome)
    \/ \E j \in JobIds : \E order \in Orders(TasksOf(j) \cap Done) :
           as_completed(j, order)
    \/ \E j \in JobIds : Answer(j)

\* The steps of the program, for the users who send queries (us) and the
\* queries they may send (qs); n bounds the number of queries.
Step(n, us, qs, cs, rs, os) ==
    \/ /\ Len(queries) < n
       /\ \E user \in us, query \in qs :
              Punctual(user) /\ __command__(user, query)
    \/ Run(cs, rs, os)

Next ==
    Step(MaxQueries, Users, Queries, DetectCodes \cup {Raise}, Responses,
         Outcomes)
Spec == Init /\ [][Next]_vars

\* Debounce scenario: every kind of query, a backend that answers with one
\* male voice and units that succeed.
NextDebounce ==
    Step(MaxQueries, Users, Queries \ {<<"1", "2">>}, {<<"e", "n">>},
         {r \in Responses : Len(r.Voices) = 2}, {"ok"})
SpecDebounce == Init /\ [][NextDebounce]_vars

\* Racing voices() calls: queries without a language directive, a detector
\* that answers English or raises, a backend that fails, has no voice or
\* has male voices, and units that succeed.
NextVoices ==
    Step(MaxCalls, Users, {<<"h", "i">>, <<"1", "2">>}, {<<"e", "n">>, Raise},
         {r \in Responses : Len(r.Voices) <= 2}, {"ok"})
SpecVoices == Init /\ [][NextVoices]_vars

\* Fan-out scenario: the queries of one user, every response of the backend
\* and every outcome of a unit of work.
NextFanout ==
    Step(MaxJobs, {"u1"}, {<<"h", "i">>}, {<<"e", "n">>}, Responses, Outcomes)
SpecFanout == Init /\ [][NextFanout]_vars

\* Catalog scenario: the queries of one user and every catalog of at most
\* MaxVoices voices, which the backend lists the same to every fetch of a
\* run.
TheCatalog ==
    IF \E j \in JobIds : queries[j].fetched # "no"
    THEN {queries[j].catalog : j \in {k \in JobIds : queries[k].fetched # "no"}}
    ELSE CatalogsUpTo(MaxVoices)
NextCatalog ==
    Step(MaxJobs, {"u1"}, {<<"h", "i">>}, {<<"e", "n">>},
         {[error |-> FALSE, Voices |-> c] : c \in TheCatalog}, {"ok"})
SpecCatalog == Init /\ [][NextCatalog]_vars

\* Parsing scenario: one user's queries with and without a language
\* directive, well formed and not, every code the detector may return, a
\* backend with male voices and units that succeed.
Directives ==
    { <<"!", "e", "n", " ", "h", "e", "l", "l", "o">>,
      <<"!", "x", "x", " ", "h", "e", "l", "l", "o">>,
      <<"h", "e", "l", "l", "o">>,
      <<"!", "r", "u", " ", "d", "a">>,
      <<"!", "e", "n">>,
      <<"!", "e", " ", "h", "i">>,
      <<"!", "e", "n", "g", " ", "h", "i">>,
      <<"!", "e", "n", "g", "l", " ", "h", "i">>,
      <<"!", "E", "N", " ", "h", "i">>,
      <<"!", " ", "e", "n", " ", "h", "i">>,
      <<" ", "!", "r", "u", "\t", " ", "d", "a", " ">>,
      <<"e", "n", " ", "h", "i">>,
      <<"!", "e", "n", " ", "!", "r", "u", " ", "d", "a">> }
NextParse ==
    Step(MaxJobs, {"u1"}, Directives, DetectCodes,
         {r \in Responses : Len(r.Voices) = 2}, {"ok"})
SpecParse == Init /\ [][NextParse]_vars

\* Scenario of one user who goes on sending queries while earlier jobs run,
\* with a backend with male voices and units that succeed.  The scheduler,
\* the job threads and the workers take their steps: none of them stops
\* while it has a step to take.
NextRefire ==
    Step(MaxQueries, {"u1"}, {<<"h", "i">>, <<" ">>}, {<<"e", "n">>},
         {r \in Responses : Len(r.Voices) = 2}, {"ok"})
SpecRefire ==
    /\ Init /\ [][NextRefire]_vars
    /\ WF_vars(Run({<<"e", "n">>}, {r \in Responses : Len(r.Voices) = 2},
                   {"ok"}))

\* Cache scenario: one user's queries in two languages, a backend that
\* fails, has no voice or has male voices, and units that succeed.
NextCache ==
    Step(MaxQueries, {"u1"}, {<<"h", "i">>, <<"!", "r", "u", " ", "d", "a">>},
         {<<"e", "n">>}, {r \in Responses : Len(r.Voices) <= 2}, {"ok"})
SpecCache == Init /\ [][NextCache]_vars

\* Pool scenario: queries that give two units each, more units than the
\* pool has workers, with units that succeed.  The scheduler, the job
\* threads and the workers take their steps.
NextPool ==
    Step(MaxPoolJobs, {"u1"}, {<<"h", "i">>}, {<<"e", "n">>},
         {r \in Responses : Len(r.Voices) = 4}, {"ok"})
SpecPool ==
    /\ Init /\ [][NextPool]_vars
    /\ WF_vars(Run({<<"e", "n">>}, {r \in Responses : Len(r.Voices) = 4},
                   {"ok"}))

\* Lock scenario: one user's queries, with and without a letter, for one
\* language, a backend that fails or has male voices, and units that
\* succeed.  The scheduler, the job threads and the workers take their
\* steps.
NextLock ==
    Step(MaxQueries, {"u1"}, {<<"h", "i">>, <<"1", "2">>},
         {<<"e", "n">>, Raise},
         {r \in Responses : r.error \/ Len(r.Voices) = 2}, {"ok"})
SpecLock ==
    /\ Init /\ [][NextLock]_vars
    /\ WF_vars(Run({<<"e", "n">>, Raise},
                   {r \in Responses : r.error \/ Len(r.Voices) = 2}, {"ok"}))

\* ------------------------------------------------------------ claims
Fired(j) ==
    queries[j].state \in {"voices", "lock", "fetch", "submitted", "collect",
                          "answered", "raised"}
\* voices() has returned a list to job j.
Returned(j) == queries[j].state \in {"submitted", "collect", "answered"}
Valid(j) == queries[j].state # "rejected"
Bursts(user) == {queries[j].burst : j \in JobsOf(user)}
BurstOf(user, b) == {j \in JobsOf(user) : queries[j].burst = b}
\* The burst has ended: nothing of it is pending, and the delay of its last
\* query has elapsed or a later burst of the user has begun.
Over(user, b) ==
    /\ \A j \in BurstOf(user, b) : ~Pending(j)
    /\ \/ since[user] >= inline_debounce_millis
       \/ \E c \in Bursts(user) : c > b
SynthesisAnswers(j) ==
    {i \in 1..Len(answers) :
        answers[i].query = j /\ answers[i].sender = "__synthesize__"}

\* C1 as stated: of the queries of a finished burst of rapid queries of one
\* user exactly one job has executed, the job of the last query.
C1_ExactlyOneExecuted ==
    \A user \in Users : \A b \in Bursts(user) :
        Over(user, b) =>
            {j \in BurstOf(user, b) : Fired(j)} = {Last(BurstOf(user, b))}

\* C1, amended: of a finished burst of rapid queries of one user, the job of
\* the last query has executed, with the text and language parsed from that
\* query, if that query passed validation, and no job at all otherwise; the
\* earlier queries of the burst never execute and get no synthesis answer.
C1_LastOfBurstExecutes ==
    \A user \in Users : \A b \in Bursts(user) :
        LET last == Last(BurstOf(user, b))
        IN  /\ \A j \in BurstOf(user, b) \ {last} :
                   ~Fired(j) /\ SynthesisAnswers(j) = {}
            /\ Fired(last) =>
                   /\ Valid(last)
                   /\ <<queries[last].language, queries[last].text>>
                          = __parse_query__(queries[last].query)
            /\ Over(user, b) => (Fired(last) <=> Valid(last))

C1_Witness ==
    \E user \in Users : \E b \in Bursts(user) :
        /\ Cardinality(BurstOf(user, b)) >= 2
        /\ Over(user, b)
        /\ queries[Last(BurstOf(user, b))].state = "answered"
        /\ \E j \in BurstOf(user, b) : queries[j].state = "removed"

\* C2: a user never has more than one pending debounce job.
C2_AtMostOnePending ==
    \A user \in Users : Cardinality({j \in JobsOf(user) : Pending(j)}) <= 1

C2_Witness ==
    \E user \in Users :
        /\ Cardinality({j \in JobsOf(user) : Pending(j)}) = 1
        /\ \E j \in JobsOf(user) : queries[j].state = "removed"

\* The call of voices() by job b began after the fetch of job a had ended,
\* and both are for the same language.
Later(a, b) ==
    /\ a \in queries[b].after
    /\ queries[a].language_code = queries[b].language_code
Cached(j) == queries[j].fetched \in {"ok", "empty"}

\* C3: of two concurrent calls of voices() for the same language, which
\* both found it missing from the cache, only one fetches the catalog.
C3_SingleFetch ==
    \A a \in JobIds : \A b \in JobIds \ {a} :
        /\ queries[a].language_code # None
        /\ queries[a].language_code = queries[b].language_code
        /\ a \notin queries[b].after
        /\ b \notin queries[a].after
        => ~(Cached(a) /\ Cached(b))

\* C6: a call of voices() without a language always resolves one: the
\* thread of a fired job gets past line 35 with a supported language code.
C6_LanguageResolved ==
    \A j \in JobIds :
        Fired(j) /\ queries[j].state # "voices"
            => queries[j].language_code \in LanguageCodes

\* C7: a call of voices() whose fetch raised returns the empty list and
\* leaves the cache without an entry for its language.
C7_FailureNotCached ==
    \A j \in JobIds :
        queries[j].fetched = "error"
            => queries[j].voices = <<>> /\ ~queries[j].refetch

\* C8: once the backend reported zero voices for a language, every later
\* call of voices() for it returns the empty list, without a fetch.
C8_EmptyListCached ==
    \A a \in JobIds : \A c \in JobIds :
        queries[a].fetched = "empty" /\ Later(a, c) /\ Returned(c)
            => queries[c].voices = <<>> /\ queries[c].fetched = "no"

NoDuplicates(s) == \A i, k \in 1..Len(s) : i # k => s[i] # s[k]

C10_StableOnceCached ==
    \A a \in JobIds : \A c \in JobIds :
        Cached(a) /\ Later(a, c) /\ Returned(c)
            => queries[c].voices = queries[a].voices

Succeeded(j) == {t \in TasksOf(j) : tasks[t].outcome = "ok"}
AnswerOf(j) == answers[CHOOSE i \in SynthesisAnswers(j) : TRUE]
Items(j) == AnswerOf(j).results

\* C4: the answer of a job has exactly one item for each unit whose
\* synthesize, transcode and upload all succeeded, with that unit's voice,
\* and none for a failed unit; no unit ends with an exception, and no job
\* that got its voices ends without its answer because a unit failed.
C4_ItemsAreTheSuccesses ==
    /\ \A t \in 1..Len(tasks) : tasks[t].result.kind # "Raise"
    /\ \A j \in JobIds :
           /\ queries[j].state = "raised" => queries[j].language_code = None
           /\ queries[j].state = "answered" =>
                  /\ Cardinality(SynthesisAnswers(j)) = 1
                  /\ Len(Items(j)) = Cardinality(Succeeded(j))
                  /\ \A t \in Succeeded(j) :
                         \E i \in 1..Len(Items(j)) :
                             /\ Items(j)[i].id = uuid4(t)
                             /\ Items(j)[i].title[1] = tasks[t].voice

C4_Witness ==
    \E j \in JobIds :
        /\ queries[j].state = "answered"
        /\ Cardinality(TasksOf(j)) = 2
        /\ Cardinality(Succeeded(j)) = 1
        /\ Len(Items(j)) = 1

\* C5: a job whose voice list is empty, or whose units all failed, sends
\* exactly one answer, with no item; it never ends with an error instead.
C5_EmptyAnswer ==
    \A j \in JobIds :
        /\ Returned(j) /\ queries[j].state # "answered"
               => SynthesisAnswers(j) = {}
        /\ queries[j].state = "raised" => ~(queries[j].language_code \in LanguageCodes)
        /\ queries[j].state = "answered" /\ Succeeded(j) = {} =>
               /\ Cardinality(SynthesisAnswers(j)) = 1
               /\ Items(j) = <<>>

C5_Witness ==
    \E j \in JobIds :
        /\ queries[j].state = "answered"
        /\ queries[j].voices # <<>>
        /\ \A t \in TasksOf(j) : tasks[t].outcome \notin {None, "ok"}
        /\ Items(j) = <<>>

\* The answers sent for query j, and the query that has just arrived.
AnswersTo(j) == {i \in 1..Len(answers) : answers[i].query = j}
Arrives(j) == j = Len(queries) + 1 /\ Len(queries') = j
FailsValidation(q) == ~validate(__parse_query__(q)[2])

\* C11: when a query that fails validation arrives, the pending job of its
\* user is canceled and none is scheduled; one answer without items is sent
\* for it if the user had a pending job, and none if not.  Never is a unit
\* of work submitted or a further answer sent for such a query.
C11_InvalidQuery ==
    [][\A j \in 1..Len(queries') :
          FailsValidation(queries'[j].query) =>
              /\ queries'[j].state = "rejected"
              /\ \A t \in 1..Len(tasks') : tasks'[t].job # j
              /\ j <= Len(queries) => AnswersTo(j)' = AnswersTo(j)
              /\ Arrives(j) =>
                    LET mine == JobsOf(queries'[j].user)
                    IN  /\ \A k \in mine : queries'[k].state # "pending"
                        /\ \A k \in mine :
                               Pending(k) => queries'[k].state = "removed"
                        /\ answers' =
                               IF \E k \in mine : Pending(k)
                               THEN Append(answers,
                                        [query |-> j, sender |-> "__command__",
                                         results |-> <<>>,
                                         is_personal |-> TRUE])
                               ELSE answers]_vars

C11_Witness ==
    \E j \in JobIds : \E k \in JobsOf(queries[j].user) :
        /\ FailsValidation(queries[j].query)
        /\ queries[k].state = "removed"
        /\ Cardinality(AnswersTo(j)) = 1
        /\ answers[CHOOSE i \in AnswersTo(j) : TRUE].results = <<>>

\* C12: no call of upload ends with an exception: for an error of the
\* storage backend it returns None, and for a success the fresh object id
\* with the URL made of the bucket and that id.
C12_UploadNeverRaises ==
    \A t \in Done :
        tasks[t].outcome \notin {"synthesize_raises", "convert_raises"} =>
            LET result == upload(tasks[t].outcome, uuid4(t))
            IN  /\ result.kind # "Raise"
                /\ tasks[t].outcome # "ok" => result = NoResult
                /\ tasks[t].outcome = "ok" =>
                       /\ result.kind = "value"
                       /\ result.object_id = uuid4(t)
                       /\ result.object_url =
                              <<"https://", s3_bucket, ".s3.amazonaws.com/",
                                uuid4(t), ".ogg">>

\* The text has the form of a directive with k letters: '!', k lowercase
\* letters, a separator, the rest.
HasForm(text, k) ==
    /\ Len(text) >= k + 2
    /\ Head(text) = "!"
    /\ \A i \in 2..(k + 1) : text[i] \in LowerCase
    /\ text[k + 2] \in WhiteSpace
Letters(text, k) == SubSeq(text, 2, k + 1)
Rest(text, k) == SubSeq(text, k + 3, Len(text))
Parsed(j) == <<queries[j].language, queries[j].text>>
Hello == <<"h", "e", "l", "l", "o">>

\* C13: the parse of a query is (language, rest) when its sanitized text is
\* '!', 2 or 3 lowercase letters that name a known language, a separator
\* and the rest, and (None, the sanitized text) in every other case:
\* '!en hello' gives (English, 'hello'), '!xx hello' (None, '!xx hello') and
\* 'hello' (None, 'hello').
C13_ParsedDirective ==
    \A j \in JobIds :
        LET text == sanitize(queries[j].query)
            ks == {k \in {2, 3} : HasForm(text, k)
                                     /\ from_name(Letters(text, k)) # None}
        IN  /\ \A k \in ks :
                   Parsed(j) = <<from_name(Letters(text, k)), Rest(text, k)>>
            /\ ks = {} => Parsed(j) = <<None, text>>
            /\ queries[j].query = <<"!", "e", "n", " ">> \o Hello
                   => Parsed(j) = <<"EN", Hello>>
            /\ queries[j].query = <<"!", "x", "x", " ">> \o Hello
                   => Parsed(j) = <<None, <<"!", "x", "x", " ">> \o Hello>>
            /\ queries[j].query = Hello => Parsed(j) = <<None, Hello>>

C13_Witness ==
    \E j \in JobIds :
        /\ queries[j].state = "answered"
        /\ queries[j].query = <<"!", "e", "n", " ">> \o Hello
        /\ queries[j].language = "EN"
        /\ queries[j].text = Hello

Pos(seq, x) == CHOOSE i \in 1..Len(seq) : seq[i] = x
Range(seq) == {seq[i] : i \in 1..Len(seq)}
Answers(j) == queries[j].state = "answered"
Ends(t) == tasks[t].state # "done" /\ tasks'[t].state = "done"

\* C14 as stated: the answer of a job is sent when all its units have
\* ended, and its items are in the order in which their units ended.
C14_CompletionOrder ==
    \A j \in JobIds :
        Answers(j) =>
            /\ TasksOf(j) \subseteq Done
            /\ \A a, b \in 1..Len(Items(j)) :
                   a < b => tasks[Items(j)[a].id].end < tasks[Items(j)[b].id].end

\* C14, amended: the answer of a job is sent when all its units have ended,
\* and its items are in the order in which as_completed yielded their
\* units: first the units that had ended when the job began to wait, in any
\* order, then each other unit when it ends.
C14_YieldOrder ==
    [][\A j \in JobIds :
          /\ queries[j].state = "submitted" /\ queries'[j].state = "collect"
                 => /\ Range(queries'[j].completed) = TasksOf(j) \cap Done
                    /\ NoDuplicates(queries'[j].completed)
          /\ queries[j].state = "collect" =>
                 /\ \A t \in TasksOf(j) :
                        Ends(t) => queries'[j].completed
                                       = Append(queries[j].completed, t)
                 /\ (\A t \in TasksOf(j) : ~Ends(t))
                        => queries'[j].completed = queries[j].completed
          /\ ~Answers(j) /\ Answers(j)' =>
                 /\ TasksOf(j) \subseteq Done
                 /\ Range(queries[j].completed) = TasksOf(j)
                 /\ {Items(j)'[a].id : a \in 1..Len(Items(j)')}
                        = {uuid4(t) : t \in Succeeded(j)}
                 /\ \A a, b \in 1..Len(Items(j)') :
                        a < b => Pos(queries[j].completed, Items(j)'[a].id)
                                   < Pos(queries[j].completed, Items(j)'[b].id)
      ]_vars

C14_Witness ==
    \E j \in JobIds :
        /\ Answers(j)
        /\ Len(Items(j)) = 2
        /\ Items(j)[1].id > Items(j)[2].id
        /\ tasks[Items(j)[1].id].end < tasks[Items(j)[2].id].end

\* C15: a query that arrives when a job of its user has fired leaves that
\* job, its units and the voices as they are; if no job of the user is
\* pending, no job is removed and nothing is answered for a cancellation;
\* the job of a valid query is scheduled.  Every fired job goes on to send
\* the one answer of its query.
C15_FiredJobUndisturbed ==
    /\ [][\A j \in 1..Len(queries') :
             Arrives(j) =>
                 LET mine == JobsOf(queries'[j].user)
                 IN  /\ \A k \in mine : Fired(k) => queries'[k] = queries[k]
                     /\ tasks' = tasks
                     /\ __voices__' = __voices__ /\ __lock__' = __lock__
                     /\ (\A k \in mine : ~Pending(k)) =>
                            /\ \A k \in JobIds : queries'[k] = queries[k]
                            /\ answers' = answers
                     /\ ~FailsValidation(queries'[j].query) =>
                            /\ queries'[j].state = "pending"
                            /\ queries'[j].when = inline_debounce_millis
        ]_vars
    /\ \A j \in 1..MaxQueries :
           (j \in JobIds /\ Fired(j))
               ~> (j \in JobIds /\ Answers(j)
                      /\ Cardinality(SynthesisAnswers(j)) = 1)

C15_Witness ==
    \E j \in JobIds : \E k \in JobsOf(queries[j].user) :
        /\ j < k
        /\ Answers(j) /\ Cardinality(SynthesisAnswers(j)) = 1
        /\ Answers(k)
        /\ AnswerOf(k) = answers[1]

\* The step changes what the cache holds for the language code.
Changes(code) ==
    \/ (code \in DOMAIN __voices__) # (code \in DOMAIN __voices__')
    \/ /\ code \in DOMAIN __voices__
       /\ code \in DOMAIN __voices__'
       /\ __voices__'[code] # __voices__[code]
\* The fetch of job j ends in this step.
FetchEnds(j) == queries[j].state = "fetch" /\ queries'[j].state # "fetch"

\* C16: the cache entry of a language changes only when a fetch for that
\* language ends with a catalog, and it then holds the list chosen from
\* that catalog; a fetch that fails changes no entry.
C16_CacheFrame ==
    [][/\ \A code \in LanguageCodes :
             Changes(code) =>
                 \E j \in JobIds :
                     /\ FetchEnds(j)
                     /\ queries[j].language_code = code
                     /\ queries'[j].fetched \in {"ok", "empty"}
                     /\ code \in DOMAIN __voices__'
                     /\ __voices__'[code] = queries'[j].voices
                     /\ Len(queries'[j].catalog) > 0
                            => Len(__voices__'[code]) > 0
       /\ DOMAIN __voices__' \subseteq LanguageCodes
       /\ \A j \in JobIds :
             FetchEnds(j) /\ queries'[j].fetched = "error"
                 => __voices__' = __voices__
      ]_vars

C16_Witness ==
    \E j \in JobIds : \E k \in JobIds :
        /\ queries[j].fetched = "error"
        /\ queries[k].fetched = "ok"
        /\ queries[j].language_code # queries[k].language_code
        /\ DOMAIN __voices__ = {queries[k].language_code}
        /\ __voices__[queries[k].language_code] = queries[k].voices

\* The identifiers of the voices of a gender in a catalog, and the list of
\* the smallest of them, empty if there is none.
Candidates(catalog, gender) ==
    {catalog[i][1] : i \in {k \in 1..Len(catalog) : catalog[k][2] = gender}}
Smallest(S) ==
    IF S = {} THEN <<>> ELSE <<CHOOSE x \in S : \A y \in S : x <= y>>

\* C17: the list chosen from a catalog that has voices is the smallest
\* identifier of its female voices followed by the smallest of its male
\* voices, without the one there is no voice for; no voice of another
\* gender is in it.
C17_SmallestPerGender ==
    \A j \in JobIds :
        queries[j].fetched = "ok" =>
            /\ queries[j].voices =
                   Smallest(Candidates(queries[j].catalog, "Female"))
                       \o Smallest(Candidates(queries[j].catalog, "Male"))
            /\ \A i \in 1..Len(queries[j].voices) :
                   queries[j].voices[i]
                       \in Candidates(queries[j].catalog, "Female")
                            \cup Candidates(queries[j].catalog, "Male")

C17_Witness ==
    \E j \in JobIds :
        /\ queries[j].fetched = "ok"
        /\ queries[j].catalog[1][2] = "Male"
        /\ Len(queries[j].voices) = 2
        /\ queries[j].voices[1] > queries[j].voices[2]

\* C18: never do more than 4 units run, whatever jobs they are of; a unit
\* starts to run only when fewer than 4 do; whenever units are waiting or
\* running, all of them come to have run to their end.
C18_PoolOfFour ==
    /\ [](Cardinality(Running) <= max_workers)
    /\ [][\A t \in Queued :
             tasks'[t].state = "running"
                 => Cardinality(Running) < max_workers]_vars
    /\ (Queued \cup Running # {}) ~> (Queued \cup Running = {})

C18_Witness ==
    /\ Cardinality(Running) = max_workers
    /\ Queued # {}
    /\ Cardinality({tasks[t].job : t \in Running}) > 1

\* The thread of job j is in voices(), and in its fetch.
InVoices(j) == queries[j].state \in {"voices", "lock", "fetch"}
Fetching == {j \in JobIds : queries[j].state = "fetch"}

\* C19: never is more than one fetch of a catalog going on; the lock is
\* held by the call that fetches and by no call that has left voices(),
\* whether its fetch raised or not; no call stays in voices() for ever, and
\* a call that got as far as the lock returns a list.
C19_OneFetchAndRelease ==
    /\ [](/\ Cardinality(Fetching) <= 1
          /\ Fetching = {j \in JobIds : __lock__ = j}
          /\ \A j \in JobIds :
                 queries[j].state = "raised" => queries[j].language_code = None)
    /\ [][\A j \in JobIds :
             FetchEnds(j) => __lock__ = j /\ __lock__' = 0 /\ Returned(j)']_vars
    /\ (\E j \in JobIds : InVoices(j)) ~> (\A j \in JobIds : ~InVoices(j))

C19_Witness ==
    \E j \in JobIds : \E k \in JobIds :
        /\ queries[j].fetched = "error"
        /\ queries[k].fetched = "ok"
        /\ j \notin queries[k].after
        /\ k \notin queries[j].after
        /\ Returned(j) /\ Returned(k)
        /\ __lock__ = 0

====
